---- MODULE Spec2Model ----
(***************************************************************************)
(* Model of the rule-application engine of app/core/validator.py and of   *)
(* the default pipeline of app/endpoints/validate_dataset.py.             *)
(*                                                                         *)
(* A string is a sequence of one-character strings, so that strip(), the  *)
(* regular expressions and the parsers are computed character by          *)
(* character.  A cell is a record [k, s, n]: k = "nan" (missing),         *)
(* k = "str" (text s) or k = "num" (number n).  A pandas Series is a      *)
(* record [index, values] of two sequences of the same length.            *)
(***************************************************************************)
EXTENDS Integers, Sequences, FiniteSets, TLC

VARIABLES
    pc,                    \* position of the request / call
    index,                 \* df.index: the row identifiers, in row order
    df,                    \* df: column name -> sequence of cells
    dtypes,                \* column name -> "object" | "category"
    rules,                 \* rules.items(): sequence of [validator, columns]
    replacement_value,     \* the replacement_value argument
    ri, ci,                \* position of the two for-loops of the pass
    modifications_report,  \* column name -> sequence of ModificationRecord
    history,               \* what each (rule, column) iteration did so far
    uploaded,              \* the table as parsed from the upload
    before_pass,           \* the table when the current pass started
    passes,                \* how many passes have been started
    first_report,          \* the report returned by the first pass
    series,                \* argument of a direct validator call
    validator_func,        \* the validator called directly
    invalid_mask           \* result of a direct validator call

vars == <<pc, index, df, dtypes, rules, replacement_value, ri, ci,
          modifications_report, history, uploaded, before_pass, passes,
          first_report, series, validator_func, invalid_mask>>

-----------------------------------------------------------------------------
(* Bounds of the model *)

MaxRows == 2

MaxRules == 2

MaxSeriesLen == 2

-----------------------------------------------------------------------------
(* Cells and strings *)

NaN == [k |-> "nan", s |-> <<>>, n |-> 0]

Str(s) == [k |-> "str", s |-> s, n |-> 0]

Num(n) == [k |-> "num", s |-> <<>>, n |-> n]

isna(item) == item.k = "nan"

notna(item) == ~isna(item)

isinstance_str(item) == item.k = "str"

Digits == {"0", "1", "2", "3", "4", "5", "6", "7", "8", "9"}

Whitespace == {" ", "\t", "\n"}

DigitValue(c) ==
    CASE c = "0" -> 0 [] c = "1" -> 1 [] c = "2" -> 2 [] c = "3" -> 3
      [] c = "4" -> 4 [] c = "5" -> 5 [] c = "6" -> 6 [] c = "7" -> 7
      [] c = "8" -> 8 [] c = "9" -> 9

DigitChar(d) ==
    CASE d = 0 -> "0" [] d = 1 -> "1" [] d = 2 -> "2" [] d = 3 -> "3"
      [] d = 4 -> "4" [] d = 5 -> "5" [] d = 6 -> "6" [] d = 7 -> "7"
      [] d = 8 -> "8" [] d = 9 -> "9"

AllDigits(s) == \A i \in 1..Len(s) : s[i] \in Digits

RECURSIVE DigitsToNat(_)
DigitsToNat(s) ==
    IF s = <<>> THEN 0
    ELSE 10 * DigitsToNat(SubSeq(s, 1, Len(s) - 1)) + DigitValue(s[Len(s)])

RECURSIVE Pow10(_)
Pow10(e) == IF e = 0 THEN 1 ELSE 10 * Pow10(e - 1)

RECURSIVE lstrip(_)
lstrip(s) ==
    IF s # <<>> /\ s[1] \in Whitespace THEN lstrip(Tail(s)) ELSE s

RECURSIVE rstrip(_)
rstrip(s) ==
    IF s # <<>> /\ s[Len(s)] \in Whitespace
    THEN rstrip(SubSeq(s, 1, Len(s) - 1)) ELSE s

\* str.strip()
strip(s) == rstrip(lstrip(s))

\* str.split(sep): the pieces between the occurrences of the character sep
RECURSIVE split(_, _)
split(s, sep) ==
    IF \A i \in 1..Len(s) : s[i] # sep THEN <<s>>
    ELSE LET p == CHOOSE i \in 1..Len(s) :
                      s[i] = sep /\ \A j \in 1..(i - 1) : s[j] # sep
         IN  <<SubSeq(s, 1, p - 1)>> \o split(SubSeq(s, p + 1, Len(s)), sep)

RECURSIVE NatToStr(_)
NatToStr(n) ==
    IF n < 10 THEN <<DigitChar(n)>>
    ELSE NatToStr(n \div 10) \o <<DigitChar(n % 10)>>

\* str(n) of an integer
IntToStr(n) == IF n < 0 THEN <<"-">> \o NatToStr(0 - n) ELSE NatToStr(n)

-----------------------------------------------------------------------------
(* is_invalid_date *)

\* the pattern with the day written [0-3]\d
date_regex_any_day(s) ==
    /\ Len(s) = 19
    /\ \A i \in 1..4 : s[i] \in Digits
    /\ s[5] = "-"
    /\ \/ s[6] = "0" /\ s[7] \in Digits \ {"0"}
       \/ s[6] = "1" /\ s[7] \in {"0", "1", "2"}
    /\ s[8] = "-"
    /\ s[9] \in {"0", "1", "2", "3"} /\ s[10] \in Digits
    /\ s[11] = " "
    /\ \/ s[12] \in {"0", "1"} /\ s[13] \in Digits
       \/ s[12] = "2" /\ s[13] \in {"0", "1", "2", "3"}
    /\ s[14] = ":"
    /\ s[15] \in {"0", "1", "2", "3", "4", "5"} /\ s[16] \in Digits
    /\ s[17] = ":"
    /\ s[18] \in {"0", "1", "2", "3", "4", "5"} /\ s[19] \in Digits

\* ^(\d{4})-(0[1-9]|1[0-2])-(0[1-9]|[12]\d|3[01]) ([01]\d|2[0-3]):([0-5]\d):([0-5]\d)$
date_regex_fullmatch(s) ==
    /\ Len(s) = 19
    /\ \A i \in 1..4 : s[i] \in Digits
    /\ s[5] = "-"
    /\ \/ s[6] = "0" /\ s[7] \in Digits \ {"0"}
       \/ s[6] = "1" /\ s[7] \in {"0", "1", "2"}
    /\ s[8] = "-"
    /\ \/ s[9] = "0" /\ s[10] \in Digits \ {"0"}
       \/ s[9] \in {"1", "2"} /\ s[10] \in Digits
       \/ s[9] = "3" /\ s[10] \in {"0", "1"}
    /\ s[11] = " "
    /\ \/ s[12] \in {"0", "1"} /\ s[13] \in Digits
       \/ s[12] = "2" /\ s[13] \in {"0", "1", "2", "3"}
    /\ s[14] = ":"
    /\ s[15] \in {"0", "1", "2", "3", "4", "5"} /\ s[16] \in Digits
    /\ s[17] = ":"
    /\ s[18] \in {"0", "1", "2", "3", "4", "5"} /\ s[19] \in Digits

\* the loop body of is_invalid_date for one item
date_item_is_invalid(item) ==
    IF isna(item) THEN FALSE
    ELSE IF isinstance_str(item)
         THEN ~date_regex_fullmatch(strip(item.s))
         ELSE TRUE

is_invalid_date(ser) ==
    [index  |-> ser.index,
     values |-> [i \in 1..Len(ser.values) |->
                    date_item_is_invalid(ser.values[i]) /\ notna(ser.values[i])]]

-----------------------------------------------------------------------------
(* is_invalid_ipv4 *)

\* ipaddress.IPv4Address._parse_octet
parse_octet_ok(octet) ==
    /\ octet # <<>>
    /\ AllDigits(octet)
    /\ Len(octet) <= 3
    /\ ~(octet # <<"0">> /\ octet[1] = "0")
    /\ DigitsToNat(octet) <= 255

\* ipaddress.IPv4Address(address) does not raise
IPv4Address_ok(address) ==
    /\ \A i \in 1..Len(address) : address[i] # "/"
    /\ LET octets == split(address, ".")
       IN  /\ Len(octets) = 4
           /\ \A i \in 1..4 : parse_octet_ok(octets[i])

ipv4_item_is_invalid(item) ==
    IF isna(item) THEN FALSE
    ELSE IF notna(item) /\ isinstance_str(item)
         THEN ~IPv4Address_ok(strip(item.s))
         ELSE TRUE

is_invalid_ipv4(ser) ==
    [index  |-> ser.index,
     values |-> [i \in 1..Len(ser.values) |-> ipv4_item_is_invalid(ser.values[i])]]

-----------------------------------------------------------------------------
(* is_invalid_positive_numeric *)

\* A parsed number is num / den; nan = TRUE is the coerced parse failure.
NumericNaN == [nan |-> TRUE, num |-> 0, den |-> 1]

\* the float parser on a text without surrounding blanks:
\* [sign] digits [. digits]  or  [sign] . digits
parse_float(t) ==
    LET neg    == t # <<>> /\ t[1] = "-"
        body   == IF t # <<>> /\ t[1] \in {"-", "+"} THEN Tail(t) ELSE t
        parts  == split(body, ".")
        whole  == parts[1]
        frac   == IF Len(parts) = 2 THEN parts[2] ELSE <<>>
        ok     == /\ Len(parts) <= 2
                  /\ AllDigits(whole) /\ AllDigits(frac)
                  /\ Len(whole) + Len(frac) > 0
        mag    == DigitsToNat(whole) * Pow10(Len(frac)) + DigitsToNat(frac)
    IN  IF ok THEN [nan |-> FALSE,
                    num |-> IF neg THEN 0 - mag ELSE mag,
                    den |-> Pow10(Len(frac))]
        ELSE NumericNaN

\* pd.to_numeric(item, errors='coerce') for one item
to_numeric(item) ==
    CASE item.k = "nan" -> NumericNaN
      [] item.k = "num" -> [nan |-> FALSE, num |-> item.n, den |-> 1]
      [] item.k = "str" -> parse_float(strip(item.s))

\* the comparison written numeric_vals < 0
positive_numeric_zero_allowed(item) ==
    \/ to_numeric(item).nan /\ notna(item)
    \/ ~to_numeric(item).nan /\ to_numeric(item).num < 0

positive_numeric_item_is_invalid(item) ==
    LET numeric_val == to_numeric(item)
    IN  \/ numeric_val.nan /\ notna(item)
        \/ ~numeric_val.nan /\ numeric_val.num <= 0

is_invalid_positive_numeric(ser) ==
    [index  |-> ser.index,
     values |-> [i \in 1..Len(ser.values) |->
                    positive_numeric_item_is_invalid(ser.values[i])]]

-----------------------------------------------------------------------------
(* Caller-supplied validators: the rules argument maps any callable to its *)
(* columns, so besides the three built-ins the model passes three callables *)
(* that take the failure branches of apply_validations_inplace.            *)

\* def raising_validator(series): raise ValueError(...)
\* def short_mask_validator(series): return is_invalid_ipv4(series.iloc[1:])
short_mask_validator(ser) ==
    is_invalid_ipv4([index |-> Tail(ser.index), values |-> Tail(ser.values)])

\* def reset_index_validator(series):
\*     return is_invalid_ipv4(series.reset_index(drop=True))
reset_index_validator(ser) ==
    is_invalid_ipv4([index  |-> [i \in 1..Len(ser.index) |-> i - 1],
                     values |-> ser.values])

BuiltinValidators ==
    {"is_invalid_ipv4", "is_invalid_positive_numeric", "is_invalid_date"}

CustomValidators ==
    {"raising_validator", "short_mask_validator", "reset_index_validator"}

\* invalid_mask = validator_func(series_to_validate): [raised, mask]
CallValidator(name, ser) ==
    CASE name = "is_invalid_date" ->
             [raised |-> FALSE, mask |-> is_invalid_date(ser)]
      [] name = "is_invalid_ipv4" ->
             [raised |-> FALSE, mask |-> is_invalid_ipv4(ser)]
      [] name = "is_invalid_positive_numeric" ->
             [raised |-> FALSE, mask |-> is_invalid_positive_numeric(ser)]
      [] name = "short_mask_validator" ->
             [raised |-> FALSE, mask |-> short_mask_validator(ser)]
      [] name = "reset_index_validator" ->
             [raised |-> FALSE, mask |-> reset_index_validator(ser)]
      [] name = "raising_validator" ->
             [raised |-> TRUE, mask |-> [index |-> <<>>, values |-> <<>>]]

-----------------------------------------------------------------------------
(* pandas operations used by apply_validations_inplace *)

\* Index.is_unique
is_unique(idx) == \A i, j \in 1..Len(idx) : idx[i] = idx[j] => i = j

\* the rows of the table that carry the label idx
RowsOf(idx_seq, idx) == {i \in 1..Len(idx_seq) : idx_seq[i] = idx}

\* Series.reindex(target): raises on duplicate source labels; a target label
\* the mask does not have becomes NaN (na = TRUE)
reindex(mask, target) ==
    [raised |-> ~is_unique(mask.index),
     na     |-> \E i \in 1..Len(target) : RowsOf(mask.index, target[i]) = {},
     values |-> [i \in 1..Len(target) |->
                   \E j \in 1..Len(mask.index) :
                       mask.index[j] = target[i] /\ mask.values[j]]]

\* the positions where a boolean sequence is true, in increasing order
RECURSIVE TruePositions(_, _)
TruePositions(values, from) ==
    IF from > Len(values) THEN <<>>
    ELSE (IF values[from] THEN <<from>> ELSE <<>>)
         \o TruePositions(values, from + 1)

\* df.index[invalid_mask].tolist()
index_where(idx_seq, values) ==
    LET pos == TruePositions(values, 1)
    IN  [j \in 1..Len(pos) |-> idx_seq[pos[j]]]

\* df.loc[idx, col_name]: the cell of the row labelled idx, or, when several
\* rows carry the label, the Series of their cells
loc(idx_seq, column, idx) ==
    LET rows == RowsOf(idx_seq, idx)
    IN  IF Cardinality(rows) = 1
        THEN column[CHOOSE i \in rows : TRUE]
        ELSE [k     |-> "Series",
              items |-> LET pos == TruePositions(
                                       [i \in 1..Len(idx_seq) |-> i \in rows], 1)
                        IN  [j \in 1..Len(pos) |-> column[pos[j]]]]

\* df.loc[invalid_indices, col_name] = value raises: a categorical column
\* takes no value outside its categories (the values it was built from)
setitem_raises(dtype, column, value) ==
    dtype = "category" /\ \A i \in 1..Len(column) : column[i] # value

\* df[col_name] = value: the whole column
setitem_whole_column(idx_seq, column, invalid_indices, value) ==
    [i \in 1..Len(column) |-> value]

\* df.loc[invalid_indices, col_name] = value: every row whose label is listed
loc_setitem(idx_seq, column, invalid_indices, value) ==
    [i \in 1..Len(column) |->
        IF \E j \in 1..Len(invalid_indices) : invalid_indices[j] = idx_seq[i]
        THEN value ELSE column[i]]

\* modifications_report = {} (line 91)
EmptyReport == [c \in {} |-> <<>>]

\* no Series
NoSeries == [index |-> <<>>, values |-> <<>>]

ModificationRecord(idx, original_value, replaced_value, validator) ==
    [index          |-> idx,
     original_value |-> original_value,
     replaced_value |-> replaced_value,
     validator      |-> validator]

-----------------------------------------------------------------------------
(* apply_validations_inplace: one iteration of the inner loop *)

\* lines 114-118 and 122: the reindexed mask, unless reindex raised or left a
\* NaN, which df.index[invalid_mask] rejects
reindexed_mask(re) ==
    IF re.raised THEN [skip |-> "reindex_error", values |-> <<>>]
    ELSE IF re.na THEN [skip |-> "indices_error", values |-> <<>>]
    ELSE [skip |-> "", values |-> re.values]

\* lines 110-125 on what the validator call gave
checked_mask(idx_seq, called) ==
    IF called.raised
    THEN [skip |-> "validator_error", values |-> <<>>]
    ELSE IF idx_seq = called.mask.index
    THEN [skip |-> "", values |-> called.mask.values]
    ELSE IF Len(idx_seq) = Len(called.mask.index)
    THEN reindexed_mask(reindex(called.mask, idx_seq))
    ELSE [skip |-> "length_mismatch", values |-> <<>>]

\* lines 109-125: the mask as used at line 122, or the reason to skip
aligned_mask(idx_seq, validator_name, column) ==
    checked_mask(idx_seq,
                 CallValidator(validator_name, [index |-> idx_seq, values |-> column]))

\* the records read after the write: original_value is already the replacement
new_records_after_write(idx_seq, column, invalid_indices, value, validator_name) ==
    [j \in 1..Len(invalid_indices) |->
        ModificationRecord(invalid_indices[j], value, value, validator_name)]

\* lines 132-145: the records of one column under one rule, in mask order
new_records(idx_seq, column, invalid_indices, value, validator_name) ==
    [j \in 1..Len(invalid_indices) |->
        ModificationRecord(invalid_indices[j],
                           loc(idx_seq, column, invalid_indices[j]),
                           value, validator_name)]

\* lines 129-130 and 141
report_append(report, col_name, records) ==
    IF col_name \in DOMAIN report
    THEN [report EXCEPT ![col_name] = @ \o records]
    ELSE report @@ (col_name :> records)

\* the write made on a copy of the column: the table keeps its cells
replace_on_copy(table, types, idx_seq, col_name, invalid_indices, value) == table

\* lines 147-150
replace_column(table, types, idx_seq, col_name, invalid_indices, value) ==
    IF setitem_raises(types[col_name], table[col_name], value)
    THEN table
    ELSE [table EXCEPT ![col_name] =
             loc_setitem(idx_seq, @, invalid_indices, value)]

\* a skip that also empties the report
skipped_dropping_report(table, report, reason) ==
    [df |-> table, report |-> EmptyReport, outcome |-> reason,
     mask |-> <<>>, invalid_indices |-> <<>>]

\* the "continue" of lines 104, 118, 121 and 125: the column is skipped
skipped(table, report, reason) ==
    [df |-> table, report |-> report, outcome |-> reason,
     mask |-> <<>>, invalid_indices |-> <<>>]

\* lines 127-150: record, then replace, the rows of invalid_indices
record_and_replace(table, types, idx_seq, report, validator_name, col_name, value, mask, invalid_indices) ==
    IF invalid_indices = <<>>
    THEN [df |-> table, report |-> report, outcome |-> "nothing_invalid",
          mask |-> mask, invalid_indices |-> <<>>]
    ELSE [df      |-> replace_column(table, types, idx_seq, col_name,
                                     invalid_indices, value),
          report  |-> report_append(report, col_name,
                          new_records(idx_seq, table[col_name],
                                      invalid_indices, value, validator_name)),
          outcome |-> IF setitem_raises(types[col_name], table[col_name], value)
                      THEN "replace_error" ELSE "replaced",
          mask    |-> mask,
          invalid_indices |-> invalid_indices]

\* lines 110-150 on the mask m of the column, or its reason to skip
validate_with_mask(table, types, idx_seq, report, validator_name, col_name, value, m) ==
    IF m.skip # ""
    THEN skipped(table, report, m.skip)
    ELSE record_and_replace(table, types, idx_seq, report, validator_name,
                            col_name, value, m.values,
                            index_where(idx_seq, m.values))

\* lines 101-150 for one (validator, column): the table and the report after
\* the iteration, and what happened
validate_column(table, types, idx_seq, report, validator_name, col_name, value) ==
    IF col_name \notin DOMAIN table
    THEN skipped(table, report, "column_not_found")
    ELSE validate_with_mask(table, types, idx_seq, report, validator_name,
                            col_name, value,
                            aligned_mask(idx_seq, validator_name, table[col_name]))

-----------------------------------------------------------------------------
(* Inputs *)

\* row identifiers of a table of n rows: the default RangeIndex, a reversed
\* one, one whose labels start at 1, and one with a duplicated label
IndexChoices(n) ==
    {[i \in 1..n |-> i - 1],
     [i \in 1..n |-> n - i],
     [i \in 1..n |-> i],
     [i \in 1..n |-> IF i <= 2 THEN 0 ELSE i - 2]}

\* "8.8.8.8" is an address and no positive number, "4" the reverse
IpCells == {Str(<<"8", ".", "8", ".", "8", ".", "8">>), Str(<<"4">>)}

\* the tables handed to apply_validations_inplace: a column ip of any cells of
\* IpCells and a column cpu_cores "4", "0", "4", ...
EngineTables(n) ==
    {("ip" :> a) @@
     ("cpu_cores" :> [i \in 1..n |-> IF i % 2 = 1 THEN Str(<<"4">>) ELSE Str(<<"0">>)]) :
        a \in [1..n -> IpCells]}

\* ip is either an object column or a categorical one
EngineDtypes ==
    {("ip" :> d) @@ ("cpu_cores" :> "object") : d \in {"object", "category"}}

EngineValidators ==
    {"is_invalid_ipv4", "is_invalid_positive_numeric"} \cup CustomValidators

\* the column lists of a rule; ram is not a column of the table
ColumnLists ==
    {<<"ram", "ip">>, <<"ip", "cpu_cores">>}

RECURSIVE RuleSets(_)
RuleSets(n) ==
    IF n = 0 THEN {<<>>}
    ELSE LET shorter == RuleSets(n - 1)
         IN  shorter \cup
             {Append(rs, [validator |-> v, columns |-> cols]) :
                 rs \in {r \in shorter : Len(r) = n - 1},
                 v \in EngineValidators, cols \in ColumnLists}

\* rules is a dict: no validator is the key of two rules
DistinctValidators(rs) ==
    \A i, j \in 1..Len(rs) : rs[i].validator = rs[j].validator => i = j

-----------------------------------------------------------------------------
(* remove_microseconds_regex_inplace *)

\* the longest run of digits that ends the text
RECURSIVE TrailingDigits(_)
TrailingDigits(s) ==
    IF s # <<>> /\ s[Len(s)] \in Digits
    THEN 1 + TrailingDigits(SubSeq(s, 1, Len(s) - 1)) ELSE 0

\* the pattern written \.\d{6}$: only six digits are removed
sub_six_digits(s) ==
    IF Len(s) >= 7 /\ TrailingDigits(s) = 6 /\ s[Len(s) - 6] = "."
    THEN SubSeq(s, 1, Len(s) - 7) ELSE s

\* re.sub(r"\.\d+$", "", s); $ also matches before one final newline
sub_microseconds(s) ==
    LET nl   == s # <<>> /\ s[Len(s)] = "\n"
        core == IF nl THEN SubSeq(s, 1, Len(s) - 1) ELSE s
        d    == TrailingDigits(core)
        dot  == Len(core) - d
    IN  IF d >= 1 /\ dot >= 1 /\ core[dot] = "."
        THEN SubSeq(core, 1, dot - 1) \o (IF nl THEN <<"\n">> ELSE <<>>)
        ELSE s

\* str(item) as astype(str) gives it: a number of a column that also holds
\* missing values is a float
astype_str(item, is_float) ==
    CASE item.k = "str" -> item.s
      [] item.k = "num" ->
             IntToStr(item.n) \o (IF is_float THEN <<".", "0">> ELSE <<>>)
      [] item.k = "nan" -> <<"n", "a", "n">>

\* df[col].fillna('').astype(str).str.replace(regex_pattern, "", regex=True)
strip_column(column) ==
    LET is_float == \E i \in 1..Len(column) : isna(column[i])
    IN  [i \in 1..Len(column) |->
            LET filled == IF isna(column[i]) THEN Str(<<>>) ELSE column[i]
            IN  Str(sub_microseconds(astype_str(filled, is_float)))]

RECURSIVE remove_microseconds_regex_inplace(_, _, _)
remove_microseconds_regex_inplace(table, types, columns) ==
    IF columns = <<>> THEN table
    ELSE LET col == Head(columns)
             done == IF col \in DOMAIN table
                        /\ ~setitem_raises(types[col], table[col], Str(<<>>))
                     THEN [table EXCEPT ![col] = strip_column(@)]
                     ELSE table
         IN  remove_microseconds_regex_inplace(done, types, Tail(columns))

-----------------------------------------------------------------------------
(* apply_validations_inplace as a state machine *)

HistoryEntry(validator_name, col_name, table, r) ==
    [validator       |-> validator_name,
     col_name        |-> col_name,
     outcome         |-> r.outcome,
     mask            |-> r.mask,
     invalid_indices |-> r.invalid_indices,
     table_before    |-> table,
     report_before   |-> modifications_report,
     table_after     |-> r.df,
     report_after    |-> r.report]

Init ==
    /\ pc = "validate"
    /\ \E n \in 1..MaxRows :
          /\ index \in IndexChoices(n)
          /\ df \in EngineTables(n)
    /\ dtypes \in EngineDtypes
    /\ rules \in {rs \in RuleSets(MaxRules) : rs # <<>> /\ DistinctValidators(rs)}
    /\ replacement_value = Str(<<" ">>)
    /\ ri = 1 /\ ci = 1
    /\ modifications_report = EmptyReport
    /\ history = <<>>
    /\ uploaded = df
    /\ before_pass = df
    /\ passes = 1
    /\ first_report = EmptyReport
    /\ series = NoSeries
    /\ validator_func = ""
    /\ invalid_mask = NoSeries

\* one iteration of "for col_name in columns_to_validate" (lines 101-150)
ValidateColumn ==
    /\ pc = "validate"
    /\ ri <= Len(rules)
    /\ \E r \in {validate_column(df, dtypes, index, modifications_report,
                                 rules[ri].validator, rules[ri].columns[ci],
                                 replacement_value)} :
          /\ df' = r.df
          /\ modifications_report' = r.report
          /\ history' = Append(history, HistoryEntry(rules[ri].validator,
                                                     rules[ri].columns[ci], df, r))
    /\ IF ci < Len(rules[ri].columns)
       THEN ci' = ci + 1 /\ ri' = ri
       ELSE ci' = 1 /\ ri' = ri + 1
    /\ UNCHANGED <<pc, index, dtypes, rules, replacement_value, uploaded,
                   before_pass, passes, first_report, series, validator_func,
                   invalid_mask>>

\* return modifications_report (line 152)
ReturnReport ==
    /\ pc = "validate"
    /\ ri > Len(rules)
    /\ pc' = "done"
    /\ first_report' = IF passes = 1 THEN modifications_report ELSE first_report
    /\ UNCHANGED <<index, df, dtypes, rules, replacement_value, ri, ci,
                   modifications_report, history, uploaded, before_pass, passes,
                   series, validator_func, invalid_mask>>

Next == ValidateColumn \/ ReturnReport

Spec == Init /\ [][Next]_vars

-----------------------------------------------------------------------------
(* CsvValidator.validate called again on the table it holds *)

\* a second validator.validate(rules): a fresh report over the mutated table
ValidateAgain ==
    /\ pc = "done"
    /\ passes = 1
    /\ pc' = "validate"
    /\ passes' = 2
    /\ ri' = 1 /\ ci' = 1
    /\ modifications_report' = EmptyReport
    /\ history' = <<>>
    /\ before_pass' = df
    /\ UNCHANGED <<index, df, dtypes, rules, replacement_value, uploaded,
                   first_report, series, validator_func, invalid_mask>>

\* "2023-" mo "-" d " " h ":" mi ":" s
Timestamp(mo, d, h, mi, s) ==
    <<"2", "0", "2", "3", "-">> \o mo \o <<"-">> \o d \o <<" ">> \o h
        \o <<":">> \o mi \o <<":">> \o s

\* "2023-01-15 10:30:00"
GoodTimestamp ==
    Timestamp(<<"0", "1">>, <<"1", "5">>, <<"1", "0">>, <<"3", "0">>, <<"0", "0">>)

\* "2023-13-01 00:00:00"
Month13 ==
    Timestamp(<<"1", "3">>, <<"0", "1">>, <<"0", "0">>, <<"0", "0">>, <<"0", "0">>)

\* the column each built-in validator is given, and the cells it may hold
RevalidateColumn(v) ==
    CASE v = "is_invalid_ipv4" -> "ip"
      [] v = "is_invalid_positive_numeric" -> "cpu_cores"
      [] v = "is_invalid_date" -> "created_on"

RevalidateCells(v) ==
    CASE v = "is_invalid_ipv4" ->
             {NaN, Str(<<"8", ".", "8", ".", "8", ".", "8">>),
              Str(<<"2", "5", "6", ".", "1", ".", "1", ".", "1">>)}
      [] v = "is_invalid_positive_numeric" ->
             {NaN, Str(<<"4">>), Str(<<"0">>), Str(<<"a", "b", "c">>), Num(4), Num(0 - 2)}
      [] v = "is_invalid_date" ->
             {NaN, Str(GoodTimestamp), Str(Month13)}

InitRevalidate ==
    /\ pc = "validate"
    /\ validator_func \in BuiltinValidators
    /\ \E n \in 1..MaxRows :
          /\ index = [i \in 1..n |-> i - 1]
          /\ \E column \in [1..n -> RevalidateCells(validator_func)] :
                df = (RevalidateColumn(validator_func) :> column)
    /\ dtypes = [c \in DOMAIN df |-> "object"]
    /\ rules = <<[validator |-> validator_func,
                  columns |-> <<RevalidateColumn(validator_func)>>]>>
    /\ replacement_value = Str(<<" ">>)
    /\ ri = 1 /\ ci = 1
    /\ modifications_report = EmptyReport
    /\ history = <<>>
    /\ uploaded = df
    /\ before_pass = df
    /\ passes = 1
    /\ first_report = EmptyReport
    /\ series = NoSeries
    /\ invalid_mask = NoSeries

NextRevalidate == ValidateColumn \/ ReturnReport \/ ValidateAgain

SpecRevalidate == InitRevalidate /\ [][NextRevalidate]_vars

-----------------------------------------------------------------------------
(* validate_dataset: the default pipeline *)

\* rules of validate_dataset, in the dict's insertion order
DefaultRules ==
    <<[validator |-> "is_invalid_ipv4", columns |-> <<"ip">>],
      [validator |-> "is_invalid_positive_numeric",
       columns |-> <<"cpu_cores", "cpu_freq", "ram", "total_volume">>],
      [validator |-> "is_invalid_date", columns |-> <<"created_on", "updated_on">>]>>

\* "2023-01-15 10:30:00.500"
FractionalTimestamp == GoodTimestamp \o <<".", "5", "0", "0">>

\* "2023-99-01 00:00:00"
Month99 ==
    Timestamp(<<"9", "9">>, <<"0", "1">>, <<"0", "0">>, <<"0", "0">>, <<"0", "0">>)

\* what pd.read_csv gives for a column of the upload: text or missing in ip
\* and in the date columns, numbers or missing in cpu_cores
CsvCells(col) ==
    CASE col = "ip" ->
             {NaN, Str(<<"8", ".", "8", ".", "8", ".", "8">>),
              Str(<<"b", "a", "d", "-", "i", "p">>)}
      [] col = "cpu_cores" -> {NaN, Num(4), Num(0 - 1)}
      [] col \in {"created_on", "updated_on"} ->
             {NaN, Str(GoodTimestamp), Str(FractionalTimestamp), Str(Month99)}

\* the headers of the uploads
CsvHeaders == {{"ip", "cpu_cores", "created_on"}, {"created_on", "updated_on"}}

InitPipeline ==
    /\ pc = "strip"
    /\ \E n \in 1..MaxRows : \E header \in CsvHeaders :
          /\ index = [i \in 1..n |-> i - 1]
          /\ df \in {t \in [header -> UNION {[1..n -> CsvCells(c)] : c \in header}] :
                        \A c \in header : t[c] \in [1..n -> CsvCells(c)]}
    /\ dtypes = [c \in DOMAIN df |-> "object"]
    /\ rules = DefaultRules
    /\ replacement_value = Str(<<" ">>)
    /\ ri = 1 /\ ci = 1
    /\ modifications_report = EmptyReport
    /\ history = <<>>
    /\ uploaded = df
    /\ before_pass = df
    /\ passes = 1
    /\ first_report = EmptyReport
    /\ series = NoSeries
    /\ validator_func = ""
    /\ invalid_mask = NoSeries

\* validate_dataset line 38
RemoveMicroseconds ==
    /\ pc = "strip"
    /\ df' = remove_microseconds_regex_inplace(df, dtypes, <<"created_on", "updated_on">>)
    /\ before_pass' = df'
    /\ pc' = "validate"
    /\ UNCHANGED <<index, dtypes, rules, replacement_value, ri, ci,
                   modifications_report, history, uploaded, passes, first_report,
                   series, validator_func, invalid_mask>>

\* validate_dataset lines 38-41: the strip, then validator.validate(rules)
NextPipeline == RemoveMicroseconds \/ ValidateColumn \/ ReturnReport

SpecPipeline == InitPipeline /\ [][NextPipeline]_vars

-----------------------------------------------------------------------------
(* The built-in validators called on a column *)

\* texts given to is_invalid_date: the good timestamp, the same with one
\* field moved to or past the edge of its range, and malformed ones
DateTexts ==
    {Timestamp(mo, <<"1", "5">>, <<"1", "0">>, <<"3", "0">>, <<"0", "0">>) :
        mo \in {<<"0", "1">>, <<"1", "2">>, <<"0", "0">>, <<"1", "3">>, <<"1">>}}
    \cup
    {Timestamp(<<"0", "2">>, d, <<"0", "0">>, <<"0", "0">>, <<"0", "0">>) :
        d \in {<<"0", "1">>, <<"3", "1">>, <<"0", "0">>, <<"3", "2">>}}
    \cup
    {Timestamp(<<"0", "1">>, <<"1", "5">>, h, mi, <<"5", "9">>) :
        h \in {<<"0", "0">>, <<"2", "3">>, <<"2", "4">>},
        mi \in {<<"5", "9">>, <<"6", "0">>}}
    \cup
    {Timestamp(<<"0", "1">>, <<"1", "5">>, <<"1", "0">>, <<"3", "0">>, <<"6", "0">>),
     <<" ">> \o GoodTimestamp \o <<" ">>,
     Month13,
     FractionalTimestamp,
     SubSeq(GoodTimestamp, 1, 10),
     <<>>,
     <<" ">>}

DateCells == {NaN, Num(5)} \cup {Str(s) : s \in DateTexts}

NumericCells ==
    {NaN, Num(4), Num(0), Num(0 - 2)}
    \cup {Str(s) : s \in {<<"4">>, <<"0">>, <<"-", "2">>, <<"a", "b", "c">>,
                          <<"0", ".", "5">>, <<"-", "0", ".", "5">>, <<"1", "0">>,
                          <<>>, <<" ">>, <<"4", "x">>}}

AddressCells ==
    {NaN, Num(4)}
    \cup {Str(s) : s \in {<<"1", "9", "2", ".", "1", "6", "8", ".", "1", ".", "1">>,
                          <<"2", "5", "6", ".", "1", ".", "1", ".", "1">>,
                          <<"a", "b", "c">>, <<"1", ".", "2", ".", "3">>,
                          <<"1", ".", "2", ".", "3", ".">>, <<" ">>}}

ValidatorCells(v) ==
    CASE v = "is_invalid_date" -> DateCells
      [] v = "is_invalid_positive_numeric" -> NumericCells
      [] v = "is_invalid_ipv4" -> AddressCells

InitValidators ==
    /\ pc = "call"
    /\ validator_func \in BuiltinValidators
    /\ \E n \in 1..MaxSeriesLen :
          series \in [index : IndexChoices(n),
                      values : [1..n -> ValidatorCells(validator_func)]]
    /\ invalid_mask = NoSeries
    /\ index = <<>>
    /\ df = <<>>
    /\ dtypes = <<>>
    /\ rules = <<>>
    /\ replacement_value = Str(<<" ">>)
    /\ ri = 1 /\ ci = 1
    /\ modifications_report = EmptyReport
    /\ history = <<>>
    /\ uploaded = <<>>
    /\ before_pass = <<>>
    /\ passes = 0
    /\ first_report = EmptyReport

\* invalid_mask = validator_func(series)
ValidatorCall ==
    /\ pc = "call"
    /\ invalid_mask' = CallValidator(validator_func, series).mask
    /\ pc' = "returned"
    /\ UNCHANGED <<index, df, dtypes, rules, replacement_value, ri, ci,
                   modifications_report, history, uploaded, before_pass, passes,
                   first_report, series, validator_func>>

NextValidators == ValidatorCall

SpecValidators == InitValidators /\ [][NextValidators]_vars

-----------------------------------------------------------------------------
(* Vocabulary of the properties *)

Rows == 1..Len(index)

\* the records filed under a column
RecordsOf(report, col_name) ==
    IF col_name \in DOMAIN report THEN report[col_name] ELSE <<>>

\* the iteration obtained a mask and went on to lines 122-150
HasMask(h) == h.outcome \in {"nothing_invalid", "replaced", "replace_error"}

\* the iteration was abandoned by a "continue"
Skipped(h) == ~HasMask(h)

\* the records one iteration appended
StepRecords(h) ==
    LET was == RecordsOf(h.report_before, h.col_name)
        now == RecordsOf(h.report_after, h.col_name)
    IN  SubSeq(now, Len(was) + 1, Len(now))

\* how many of the first i mask entries are true
RECURSIVE Rank(_, _)
Rank(mask, i) ==
    IF i = 0 THEN 0 ELSE Rank(mask, i - 1) + (IF mask[i] THEN 1 ELSE 0)

\* the (validator, column) pairs of a rule set in iteration order
RECURSIVE Pairs(_)
Pairs(rs) ==
    IF rs = <<>> THEN <<>>
    ELSE [j \in 1..Len(rs[1].columns) |->
             [validator |-> rs[1].validator, col_name |-> rs[1].columns[j]]]
         \o Pairs(Tail(rs))

\* the pass over the pairs whose position is in keep, as a function of the
\* table and the report it starts from
RECURSIVE RunPairs(_, _, _, _)
RunPairs(now, pairs, keep, k) ==
    IF k > Len(pairs) THEN [df |-> now.df, report |-> now.report]
    ELSE IF k \in keep
    THEN RunPairs(validate_column(now.df, dtypes, index, now.report,
                                  pairs[k].validator, pairs[k].col_name,
                                  replacement_value),
                  pairs, keep, k + 1)
    ELSE RunPairs(now, pairs, keep, k + 1)

-----------------------------------------------------------------------------
(* C1 *)

\* the report of a single-rule pass holds exactly one record per mask-true
\* row of the column, with the fields the claim lists
C1_Records(h) ==
    LET recs == RecordsOf(modifications_report, h.col_name)
    IN  /\ \A i \in Rows : h.mask[i] <=> \E j \in 1..Len(recs) : recs[j].index = index[i]
        /\ Len(recs) = Rank(h.mask, Len(h.mask))
        /\ \A i \in Rows : h.mask[i] =>
              recs[Rank(h.mask, i)] =
                  ModificationRecord(index[i], before_pass[h.col_name][i],
                                     replacement_value, rules[1].validator)

C1_Replaced(h) ==
    \A i \in Rows : h.mask[i] => df[h.col_name][i] = replacement_value

C1_Case == pc = "done" /\ is_unique(index) /\ Len(rules) = 1

-----------------------------------------------------------------------------
(* C2 *)

\* a cell differs from its pre-pass value only if some iteration over its
\* column had the cell's own mask entry true; this covers the mask-false cells
\* of targeted columns and all cells of columns no rule references
C2_OnlyMaskTrueChanged ==
    \A c \in DOMAIN df : \A i \in Rows :
        df[c][i] # before_pass[c][i] =>
            \E k \in 1..Len(history) :
                /\ history[k].col_name = c
                /\ HasMask(history[k])
                /\ history[k].mask[i]

\* C2 as claimed: for every table, with unique or duplicated row identifiers,
\* and every rule set, the pass changes only cells whose own mask entry was
\* true under some rule targeting their column.
C2_AsClaimed == pc = "done" => C2_OnlyMaskTrueChanged

\* C2 amended: for every table with unique row identifiers and every rule set,
\* the pass changes only cells whose own mask entry was true under some rule
\* targeting their column.
C2_FrameUniqueIndex == pc = "done" /\ is_unique(index) => C2_OnlyMaskTrueChanged

\* a finished pass over unique identifiers that replaced a cell of a column,
\* kept another cell of it, and was given a table with an unreferenced column
C2_Witness ==
    /\ pc = "done" /\ is_unique(index)
    /\ \E k \in 1..Len(history) :
          /\ history[k].outcome = "replaced"
          /\ \E i, j \in Rows : history[k].mask[i] /\ ~history[k].mask[j]
    /\ \E c \in DOMAIN df : \A k \in 1..Len(history) : history[k].col_name # c

-----------------------------------------------------------------------------
(* C3 *)

\* C3: an iteration whose batched write did not happen (the write raised, or
\* the column was skipped) leaves no record for its column under its rule in
\* the report: every record names a cell that was overwritten.
C3_NoRecordWithoutWrite ==
    \A k \in 1..Len(history) :
        history[k].outcome # "replaced" => StepRecords(history[k]) = <<>>

-----------------------------------------------------------------------------
(* C4 *)

FailingPair(h) ==
    h.outcome \in {"column_not_found", "validator_error", "length_mismatch"}

\* C4: a pair whose column is absent, whose validator raises or whose mask has
\* another length than the table changes no cell and adds no record, the pass
\* goes on to the end, and the table and the report it returns are those of
\* the pass over the rule set without the failing pairs.
C4_FailureIsolation ==
    /\ \A k \in 1..Len(history) :
          FailingPair(history[k]) =>
              /\ history[k].table_after = history[k].table_before
              /\ history[k].report_after = history[k].report_before
    /\ pc = "done" =>
          /\ Len(history) = Len(Pairs(rules))
          /\ LET keep == {k \in 1..Len(history) : ~FailingPair(history[k])}
             IN  [df |-> df, report |-> modifications_report] =
                     RunPairs([df |-> before_pass, report |-> EmptyReport],
                              Pairs(rules), keep, 1)

\* a finished pass in which each of the three failures happened to some pair
\* and another pair replaced cells
C4_Witness ==
    /\ pc = "done"
    /\ \E k \in 1..Len(history) :
          /\ FailingPair(history[k])
          /\ \E l \in (k + 1)..Len(history) : history[l].outcome = "replaced"
    /\ \E k \in 1..Len(history) :
          /\ history[k].outcome = "replaced"
          /\ \E l \in (k + 1)..Len(history) : FailingPair(history[l])

-----------------------------------------------------------------------------
(* C6 *)

\* iteration k is the k-th (rule, column) pair of the rule set, starts from
\* the table and the report the previous iteration left, and evaluates its
\* validator on that table
C6_InOrderOnCommittedTable ==
    \A k \in 1..Len(history) :
        LET h == history[k]
        IN  /\ h.validator = Pairs(rules)[k].validator
            /\ h.col_name = Pairs(rules)[k].col_name
            /\ h.table_before = IF k = 1 THEN before_pass ELSE history[k - 1].table_after
            /\ h.report_before = IF k = 1 THEN EmptyReport ELSE history[k - 1].report_after
            /\ HasMask(h) =>
                  h.mask = aligned_mask(index, h.validator,
                                        h.table_before[h.col_name]).values

\* an iteration appends its records after those already filed under the
\* column, one per mask-true row, in row order, under its validator's name
C6_RecordsInRowOrder ==
    \A k \in 1..Len(history) :
        LET h == history[k]
            was == RecordsOf(h.report_before, h.col_name)
            now == RecordsOf(h.report_after, h.col_name)
            new == StepRecords(h)
        IN  /\ SubSeq(now, 1, Len(was)) = was
            /\ HasMask(h) =>
                  /\ Len(new) = Rank(h.mask, Len(h.mask))
                  /\ \A i \in Rows : h.mask[i] =>
                        /\ new[Rank(h.mask, i)].index = index[i]
                        /\ new[Rank(h.mask, i)].validator = h.validator

\* row i of a column was replaced under an earlier rule (iteration k1) and is
\* flagged again under a later rule (iteration k2)
C6_FlaggedAgain(k1, k2, i) ==
    /\ k1 < k2
    /\ history[k1].col_name = history[k2].col_name
    /\ history[k1].validator # history[k2].validator
    /\ history[k1].outcome = "replaced" /\ history[k1].mask[i]
    /\ HasMask(history[k2]) /\ history[k2].mask[i]

C6_SecondRecord(k2, i) ==
    StepRecords(history[k2])[Rank(history[k2].mask, i)]

\* C6 as claimed: in a finished pass the pairs were processed in iteration
\* order, each on the table as committed by the previous ones, the records of
\* a column are in rule order then row order, and a cell replaced by a first
\* rule and flagged by a second is recorded with original_value =
\* replacement_value.
C6_AsClaimed ==
    pc = "done" =>
        /\ C6_InOrderOnCommittedTable
        /\ C6_RecordsInRowOrder
        /\ \A k1, k2 \in 1..Len(history) : \A i \in Rows :
              C6_FlaggedAgain(k1, k2, i) =>
                  C6_SecondRecord(k2, i).original_value = replacement_value

\* C6 amended: the same, the record's original_value being replacement_value
\* when the row identifier is unique and, when several rows carry the
\* identifier, the Series of their cells, each of them replacement_value.
C6_SequentialRules ==
    pc = "done" =>
        /\ C6_InOrderOnCommittedTable
        /\ C6_RecordsInRowOrder
        /\ \A k1, k2 \in 1..Len(history) : \A i \in Rows :
              C6_FlaggedAgain(k1, k2, i) =>
                  LET original == C6_SecondRecord(k2, i).original_value
                  IN  IF Cardinality(RowsOf(index, index[i])) = 1
                      THEN original = replacement_value
                      ELSE /\ original.k = "Series"
                           /\ Len(original.items) = Cardinality(RowsOf(index, index[i]))
                           /\ \A j \in 1..Len(original.items) :
                                 original.items[j] = replacement_value

\* two rules flagged the same cell of a table with unique identifiers, the
\* first one replacing it
C6_Witness ==
    /\ pc = "done" /\ is_unique(index)
    /\ \E k1, k2 \in 1..Len(history) : \E i \in Rows : C6_FlaggedAgain(k1, k2, i)

-----------------------------------------------------------------------------
(* C5 *)

\* C5: with the default replacement " ", a second pass of the same rule over
\* the table the first pass validated returns an empty report, for each
\* built-in validator.
C5_SecondPassReportsNothing ==
    pc = "done" /\ passes = 2 => modifications_report = EmptyReport

-----------------------------------------------------------------------------
(* Timestamps as the claims describe them *)

\* the number written by the two characters at p and p + 1
TwoDigits(t, p) == 10 * DigitValue(t[p]) + DigitValue(t[p + 1])

\* YYYY-MM-DD HH:MM:SS with month 01-12, day 01-31, hour 00-23, minute and
\* second 00-59
WellFormedTimestamp(t) ==
    /\ Len(t) = 19
    /\ \A p \in {1, 2, 3, 4, 6, 7, 9, 10, 12, 13, 15, 16, 18, 19} : t[p] \in Digits
    /\ t[5] = "-" /\ t[8] = "-" /\ t[11] = " " /\ t[14] = ":" /\ t[17] = ":"
    /\ TwoDigits(t, 6) \in 1..12
    /\ TwoDigits(t, 9) \in 1..31
    /\ TwoDigits(t, 12) \in 0..23
    /\ TwoDigits(t, 15) \in 0..59
    /\ TwoDigits(t, 18) \in 0..59

\* a well-formed timestamp followed by a dot and one or more digits
HasFractionalSeconds(item) ==
    /\ item.k = "str"
    /\ Len(item.s) >= 21
    /\ WellFormedTimestamp(SubSeq(item.s, 1, 19))
    /\ item.s[20] = "."
    /\ \A p \in 21..Len(item.s) : item.s[p] \in Digits

DateColumns == {"created_on", "updated_on"}

\* some record of the report names row i of the column
Recorded(col_name, i) ==
    \E j \in 1..Len(RecordsOf(modifications_report, col_name)) :
        RecordsOf(modifications_report, col_name)[j].index = index[i]

-----------------------------------------------------------------------------
(* C7 *)

\* C7: in validate_dataset the strip runs before the rules, so a created_on or
\* updated_on cell that is a well-formed timestamp followed by a dot and
\* digits is the bare timestamp from the strip on, is never replaced and is
\* never recorded.
C7_FractionalSecondsNeverInvalid ==
    /\ pc = "strip" => history = <<>> /\ modifications_report = EmptyReport
    /\ \A c \in DateColumns \cap DOMAIN uploaded : \A i \in Rows :
          HasFractionalSeconds(uploaded[c][i]) =>
              /\ pc # "strip" => df[c][i] = Str(SubSeq(uploaded[c][i].s, 1, 19))
              /\ ~Recorded(c, i)

\* the response is ready for an upload that had fractional seconds
C7_Witness ==
    /\ pc = "done"
    /\ \E c \in DateColumns \cap DOMAIN uploaded : \E i \in Rows :
          HasFractionalSeconds(uploaded[c][i])
    /\ \E k \in 1..Len(history) : history[k].validator = "is_invalid_date"

-----------------------------------------------------------------------------
(* C10 *)

\* C10: a cell that is missing in the upload, in any column the default rules
\* target, is not overwritten with the replacement value and gets no record.
C10_MissingNeverInvalid ==
    pc = "done" =>
        \A c \in DOMAIN uploaded : \A i \in Rows :
            isna(uploaded[c][i]) =>
                df[c][i] # replacement_value /\ ~Recorded(c, i)

-----------------------------------------------------------------------------
(* C8 *)

\* the five cases the claim names
C8_Examples(item, flagged) ==
    /\ item = Str(<<"4">>) => ~flagged
    /\ item \in {Str(<<"0">>), Str(<<"-", "2">>), Str(<<"a", "b", "c">>)} => flagged
    /\ isna(item) => ~flagged

\* C8: is_invalid_positive_numeric flags a row exactly when its value fails to
\* parse and is not missing, or parses and is <= 0; "4" and a missing value
\* are valid, "0", "-2" and "abc" invalid; the mask has one entry per row, on
\* the column's row identifiers.
C8_PositiveNumericMask ==
    pc = "returned" /\ validator_func = "is_invalid_positive_numeric" =>
        /\ invalid_mask.index = series.index
        /\ Len(invalid_mask.values) = Len(series.values)
        /\ \A i \in 1..Len(series.values) :
              /\ invalid_mask.values[i] <=>
                    \/ to_numeric(series.values[i]).nan /\ notna(series.values[i])
                    \/ /\ ~to_numeric(series.values[i]).nan
                       /\ to_numeric(series.values[i]).num <= 0
              /\ C8_Examples(series.values[i], invalid_mask.values[i])

\* the validator returned for a column holding "0" and a missing value
C8_Witness ==
    /\ pc = "returned" /\ validator_func = "is_invalid_positive_numeric"
    /\ \E i, j \in 1..Len(series.values) :
          series.values[i] = Str(<<"0">>) /\ isna(series.values[j])

-----------------------------------------------------------------------------
(* C9 *)

\* the cases the claim names
C9_Examples(item, flagged) ==
    /\ item = Str(GoodTimestamp) => ~flagged
    /\ item = Str(Timestamp(<<"0", "2">>, <<"3", "1">>, <<"0", "0">>,
                            <<"0", "0">>, <<"0", "0">>)) => ~flagged
    /\ item = Str(Timestamp(<<"1">>, <<"1", "5">>, <<"1", "0">>,
                            <<"3", "0">>, <<"0", "0">>)) => flagged
    /\ item = Str(Month13) => flagged
    /\ isna(item) => ~flagged
    /\ item.k = "num" => flagged

\* C9: is_invalid_date flags a row exactly when its value is not missing and
\* is not a string whose trimmed form is a well-formed timestamp (day 01-31
\* whatever the month); missing values are valid, numbers invalid.
C9_DateMask ==
    pc = "returned" /\ validator_func = "is_invalid_date" =>
        /\ invalid_mask.index = series.index
        /\ \A i \in 1..Len(series.values) :
              /\ invalid_mask.values[i] <=>
                    /\ notna(series.values[i])
                    /\ ~(/\ series.values[i].k = "str"
                         /\ WellFormedTimestamp(strip(series.values[i].s)))
              /\ C9_Examples(series.values[i], invalid_mask.values[i])

\* the validator returned for a column holding the 31st of February and a
\* 13th month
C9_Witness ==
    /\ pc = "returned" /\ validator_func = "is_invalid_date"
    /\ \E i, j \in 1..Len(series.values) :
          /\ series.values[i] = Str(Timestamp(<<"0", "2">>, <<"3", "1">>, <<"0", "0">>,
                                              <<"0", "0">>, <<"0", "0">>))
          /\ series.values[j] = Str(Month13)

====
